---- MODULE Spec2Model ----
(***************************************************************************)
(* Model of the multi-provider model-query router of llm-council           *)
(* (backend/providers): parse_model_spec, the get_provider registry, the   *)
(* OllamaProvider / OpenRouterProvider adapters and the two routes         *)
(* query_model and query_models_parallel.                                  *)
(***************************************************************************)
EXTENDS Integers, Sequences, FiniteSets, TLC

VARIABLES
    LLM_PROVIDER,        \* backend/config.py: routing mode
    OPENROUTER_API_KEY,  \* backend/config.py: credential, NoKey when unset
    provider_instances,  \* _provider_instances: name -> adapter instance
    constructed,         \* per adapter class, how often its constructor ran
    pc,                  \* position of the router-level caller
    model_specs,         \* argument of the current query_models_parallel call
    all_results,         \* all_results of the current call
    provider_tasks,      \* the query_provider_batch tasks handed to gather
    ret,                 \* value returned (or exception raised) by the call
    gets,                \* get_provider invocations made by the current call
    qm,                  \* frame of the current router-level query_model call
    calls,               \* number of router-level calls started so far
    last_get,            \* outcome of the latest direct get_provider call
    previous,            \* what the previous router-level call was and gave
    threads,             \* OS-thread callers of get_provider
    adapter,             \* frame of a direct call to an adapter method
    parsing              \* the direct parse_model_spec calls made so far

vars == <<LLM_PROVIDER, OPENROUTER_API_KEY, provider_instances, constructed,
          pc, model_specs, all_results, provider_tasks, ret, gets, qm, calls,
          last_get, previous, threads, adapter, parsing>>

configVars   == <<LLM_PROVIDER, OPENROUTER_API_KEY>>
registryVars == <<provider_instances, constructed>>
dispatchVars == <<model_specs, all_results, provider_tasks, ret, gets>>
callVars     == <<pc, model_specs, all_results, provider_tasks, ret, gets, qm, calls, previous>>

----------------------------------------------------------------------------
(* Bounds of the model.                                                    *)

\* Longest model_specs list handed to query_models_parallel under Spec.
MaxSpecs == 3
\* Longest model_specs list under SpecCalls, and the number of calls there.
MaxSeqSpecs == 1
MaxCalls == 2
\* Longest list of model ids handed directly to an adapter's queryMany.
MaxModels == 2
\* Number of OS threads calling get_provider at once.
MaxThreads == 2
\* Longest model_specs list under SpecLive.
MaxLiveSpecs == 2
\* Number of direct parse_model_spec calls made one after the other.
MaxParses == 2

----------------------------------------------------------------------------
(* Strings.  A string is named by a TLA+ string; chars gives its           *)
(* characters, on which startswith and slicing are computed.               *)

chars ==
    [s \in {"", "m", "n", "ollama", "ollama:", "openrouter:", "ollama:m",
            "openrouter:m", "foo:m", "openrouter:n", "ollama:openrouter:m",
            "mixed", "openrouter", "_invalid"} |->
        CASE s = ""             -> << >>
          [] s = "m"            -> <<"m">>
          [] s = "n"            -> <<"n">>
          [] s = "ollama"       -> <<"o","l","l","a","m","a">>
          [] s = "ollama:"      -> <<"o","l","l","a","m","a",":">>
          [] s = "openrouter"   -> <<"o","p","e","n","r","o","u","t","e","r">>
          [] s = "openrouter:"  -> <<"o","p","e","n","r","o","u","t","e","r",":">>
          [] s = "ollama:m"     -> <<"o","l","l","a","m","a",":","m">>
          [] s = "openrouter:m" -> <<"o","p","e","n","r","o","u","t","e","r",":","m">>
          [] s = "openrouter:n" -> <<"o","p","e","n","r","o","u","t","e","r",":","n">>
          [] s = "foo:m"        -> <<"f","o","o",":","m">>
          [] s = "ollama:openrouter:m" ->
                 <<"o","l","l","a","m","a",":",
                   "o","p","e","n","r","o","u","t","e","r",":","m">>
          [] s = "mixed"        -> <<"m","i","x","e","d">>
          [] s = "_invalid"     -> <<"_","i","n","v","a","l","i","d">>]

\* The string whose characters are cs.
Str(cs) == CHOOSE s \in DOMAIN chars : chars[s] = cs

\* str.startswith
startswith(s, prefix) ==
    /\ Len(chars[s]) >= Len(chars[prefix])
    /\ SubSeq(chars[s], 1, Len(chars[prefix])) = chars[prefix]

\* s[n:]
SliceFrom(s, n) == Str(SubSeq(chars[s], n + 1, Len(chars[s])))

\* Number of characters parse_model_spec removes for each tag.
OllamaPrefixLen == 7
OpenRouterPrefixLen == 11

----------------------------------------------------------------------------
(* Configuration (backend/config.py).                                      *)

NoKey == "<unset>"
VALID_PROVIDERS == {"openrouter", "ollama", "mixed"}
KeyValues == {NoKey, "", "sk-or-v1"}

\* Python truthiness of OPENROUTER_API_KEY.
Truthy(key) == key # NoKey /\ key # ""

\* The module raises at import unless this holds, so no router code runs
\* under any other configuration.
ConfigValid(mode, key) ==
    /\ mode \in VALID_PROVIDERS
    /\ ~(mode \in {"openrouter", "mixed"} /\ ~Truthy(key))

----------------------------------------------------------------------------
(* parse_model_spec.  Result: [ok |-> TRUE, provider, model] or the        *)
(* exception raised.                                                       *)

ParseMutNoMixedCheck(mode, model_spec) ==
    IF startswith(model_spec, "ollama:")
    THEN [ok |-> TRUE, provider |-> "ollama",
          model |-> SliceFrom(model_spec, OllamaPrefixLen)]
    ELSE IF startswith(model_spec, "openrouter:")
    THEN [ok |-> TRUE, provider |-> "openrouter",
          model |-> SliceFrom(model_spec, OpenRouterPrefixLen)]
    ELSE [ok |-> TRUE,
          provider |-> IF mode = "mixed" THEN "openrouter" ELSE mode,
          model |-> model_spec]

ParseMutStripsEveryTag(mode, model_spec) ==
    LET once == ParseMutNoMixedCheck(mode, model_spec) IN
    IF ~(startswith(model_spec, "ollama:") \/ startswith(model_spec, "openrouter:"))
    THEN (IF mode = "mixed"
          THEN [ok |-> FALSE, exc |-> "ValueError"]
          ELSE [ok |-> TRUE, provider |-> mode, model |-> model_spec])
    ELSE IF startswith(once.model, "ollama:") \/ startswith(once.model, "openrouter:")
    THEN ParseMutNoMixedCheck(mode, once.model)
    ELSE once

ParseMutIgnoresTag(mode, model_spec) ==
    IF mode = "mixed"
    THEN ParseMutNoMixedCheck(mode, model_spec)
    ELSE [ok |-> TRUE, provider |-> mode,
          model |-> ParseMutNoMixedCheck(mode, model_spec).model]

ParseMutRejectsUnknownTag(mode, model_spec) ==
    IF \E k \in 1..Len(chars[model_spec]) : chars[model_spec][k] = ":"
    THEN (IF startswith(model_spec, "ollama:") \/ startswith(model_spec, "openrouter:")
          THEN ParseMutNoMixedCheck(mode, model_spec)
          ELSE [ok |-> FALSE, exc |-> "ValueError"])
    ELSE IF mode = "mixed"
    THEN [ok |-> FALSE, exc |-> "ValueError"]
    ELSE [ok |-> TRUE, provider |-> mode, model |-> model_spec]

parse_model_spec(mode, model_spec) ==
    IF startswith(model_spec, "ollama:")
    THEN [ok |-> TRUE, provider |-> "ollama",
          model |-> SliceFrom(model_spec, OllamaPrefixLen)]
    ELSE IF startswith(model_spec, "openrouter:")
    THEN [ok |-> TRUE, provider |-> "openrouter",
          model |-> SliceFrom(model_spec, OpenRouterPrefixLen)]
    ELSE IF mode = "mixed"
    THEN [ok |-> FALSE, exc |-> "ValueError"]
    ELSE [ok |-> TRUE, provider |-> mode, model |-> model_spec]

----------------------------------------------------------------------------
(* get_provider, run without interruption (a coroutine of the event loop   *)
(* has no suspension point inside it).  Result: the exception raised or    *)
(* the instance returned, with the registry and the constructor counts     *)
(* after the call.                                                         *)

NoInstance == [cls |-> "none", serial |-> 0]

\* OpenRouterProvider(api_key=...) / OllamaProvider(base_url=...): the
\* serial tells two objects of one class apart.
NewInstance(name, cons) ==
    [cls |-> IF name = "openrouter" THEN "OpenRouterProvider" ELSE "OllamaProvider",
     serial |-> cons[name] + 1]

GetProviderMutNoCache(reg, cons, key, provider_name) ==
    IF provider_name \notin {"openrouter", "ollama"}
    THEN [raised |-> TRUE, exc |-> "ValueError", inst |-> NoInstance,
          reg |-> reg, cons |-> cons]
    ELSE IF provider_name = "openrouter" /\ ~Truthy(key)
    THEN [raised |-> TRUE, exc |-> "ValueError", inst |-> NoInstance,
          reg |-> reg, cons |-> cons]
    ELSE [raised |-> FALSE, exc |-> "none",
          inst |-> NewInstance(provider_name, cons),
          reg |-> [reg EXCEPT ![provider_name] = NewInstance(provider_name, cons)],
          cons |-> [cons EXCEPT ![provider_name] = @ + 1]]

GetProviderMutStoresThenRaises(reg, cons, key, provider_name) ==
    IF provider_name \notin {"openrouter", "ollama"}
    THEN [raised |-> TRUE, exc |-> "ValueError", inst |-> NoInstance,
          reg |-> reg, cons |-> cons]
    ELSE IF reg[provider_name] # NoInstance
    THEN [raised |-> FALSE, exc |-> "none", inst |-> reg[provider_name],
          reg |-> reg, cons |-> cons]
    ELSE IF provider_name = "openrouter" /\ ~Truthy(key)
    THEN [raised |-> TRUE, exc |-> "ValueError", inst |-> NoInstance,
          reg |-> [reg EXCEPT ![provider_name] = NewInstance(provider_name, cons)],
          cons |-> [cons EXCEPT ![provider_name] = @ + 1]]
    ELSE [raised |-> FALSE, exc |-> "none",
          inst |-> NewInstance(provider_name, cons),
          reg |-> [reg EXCEPT ![provider_name] = NewInstance(provider_name, cons)],
          cons |-> [cons EXCEPT ![provider_name] = @ + 1]]

get_provider(reg, cons, key, provider_name) ==
    IF provider_name \notin {"openrouter", "ollama"}
    THEN [raised |-> TRUE, exc |-> "ValueError", inst |-> NoInstance,
          reg |-> reg, cons |-> cons]
    ELSE IF reg[provider_name] # NoInstance
    THEN [raised |-> FALSE, exc |-> "none", inst |-> reg[provider_name],
          reg |-> reg, cons |-> cons]
    ELSE IF provider_name = "openrouter" /\ ~Truthy(key)
    THEN [raised |-> TRUE, exc |-> "ValueError", inst |-> NoInstance,
          reg |-> reg, cons |-> cons]
    ELSE [raised |-> FALSE, exc |-> "none",
          inst |-> NewInstance(provider_name, cons),
          reg |-> [reg EXCEPT ![provider_name] = NewInstance(provider_name, cons)],
          cons |-> [cons EXCEPT ![provider_name] = @ + 1]]

----------------------------------------------------------------------------
(* The HTTP exchange of one query, as the backend and the network decide   *)
(* it.  A response says whether the connection is made, how long the       *)
(* answer takes, whether the transport fails otherwise, the status code    *)
(* and the body.                                                           *)

\* Python's None as a field value.
PyNone == "<None>"

NoMessage == [has_content |-> FALSE, content |-> PyNone,
              has_rd |-> FALSE, reasoning_details |-> PyNone]
Message(c) == [has_content |-> TRUE, content |-> c,
               has_rd |-> FALSE, reasoning_details |-> PyNone]
MessageRd(c, rd) == [has_content |-> TRUE, content |-> c,
                     has_rd |-> TRUE, reasoning_details |-> rd]

\* A body: is it JSON, has it "choices", and the choices with their message.
Body(json, has_choices, choices) ==
    [json |-> json, has_choices |-> has_choices, choices |-> choices]
Choice(message) == [has_message |-> TRUE, message |-> message]
ChoiceNoMessage == [has_message |-> FALSE, message |-> NoMessage]
NoBody == Body(FALSE, FALSE, << >>)

Response(connect, latency, fault, status, body) ==
    [connect |-> connect, latency |-> latency, fault |-> fault,
     status |-> status, body |-> body]

RespOk         == Response(TRUE, 1, "none", 200, Body(TRUE, TRUE, <<Choice(Message("hi"))>>))
RespOkRd       == Response(TRUE, 1, "none", 200, Body(TRUE, TRUE, <<Choice(MessageRd("yo", "trace"))>>))
RespNoContent  == Response(TRUE, 1, "none", 200, Body(TRUE, TRUE, <<Choice(NoMessage)>>))
RespRefused    == Response(FALSE, 1, "none", 200, NoBody)
RespSlow       == Response(TRUE, 121, "none", 200, Body(TRUE, TRUE, <<Choice(Message("hi"))>>))
RespNotFound   == Response(TRUE, 1, "none", 404, NoBody)
RespServerErr  == Response(TRUE, 1, "none", 500, NoBody)
RespNotJson    == Response(TRUE, 1, "none", 200, NoBody)
RespNoChoices  == Response(TRUE, 1, "none", 200, Body(TRUE, FALSE, << >>))
RespEmpty      == Response(TRUE, 1, "none", 200, Body(TRUE, TRUE, << >>))
RespNoMsg      == Response(TRUE, 1, "none", 200, Body(TRUE, TRUE, <<ChoiceNoMessage>>))
RespUnexpected == Response(TRUE, 1, "RuntimeError", 200, NoBody)

\* Every class of exchange the adapters distinguish.
Responses == {RespOk, RespOkRd, RespNoContent, RespRefused, RespSlow,
              RespNotFound, RespServerErr, RespNotJson, RespNoChoices,
              RespEmpty, RespNoMsg, RespUnexpected}

\* The classes used where whole dispatch calls are explored.
DispatchResponses == {RespOk, RespSlow, RespNoChoices}
\* The classes used where calls follow one another.
CallResponses == {RespOk, RespSlow}

----------------------------------------------------------------------------
(* Exceptions: the classes raised inside query_model and their bases.      *)

Bases ==
    [c \in {"ConnectError", "ReadTimeout", "TimeoutException", "TransportError",
            "HTTPStatusError", "HTTPError", "JSONDecodeError", "ValueError",
            "KeyError", "IndexError", "LookupError", "RuntimeError",
            "Exception", "BaseException"} |->
        CASE c = "ConnectError"     -> "TransportError"
          [] c = "ReadTimeout"      -> "TimeoutException"
          [] c = "TimeoutException" -> "TransportError"
          [] c = "TransportError"   -> "HTTPError"
          [] c = "HTTPStatusError"  -> "HTTPError"
          [] c = "HTTPError"        -> "Exception"
          [] c = "JSONDecodeError"  -> "ValueError"
          [] c = "ValueError"       -> "Exception"
          [] c = "KeyError"         -> "LookupError"
          [] c = "IndexError"       -> "LookupError"
          [] c = "LookupError"      -> "Exception"
          [] c = "RuntimeError"     -> "Exception"
          [] c = "Exception"        -> "BaseException"
          [] c = "BaseException"    -> "BaseException"]

RECURSIVE IsInstance(_, _)
IsInstance(exc, cls) ==
    IF exc = cls THEN TRUE
    ELSE IF Bases[exc] = exc THEN FALSE
    ELSE IsInstance(Bases[exc], cls)

\* The first except clause, in order, that catches exc; 0 when none does.
CatchingClause(clauses, exc) ==
    IF \E i \in 1..Len(clauses) : IsInstance(exc, clauses[i])
    THEN CHOOSE i \in 1..Len(clauses) :
            /\ IsInstance(exc, clauses[i])
            /\ \A j \in 1..(i - 1) : ~IsInstance(exc, clauses[j])
    ELSE 0

----------------------------------------------------------------------------
(* Adapter.query_model.                                                    *)

\* query_model's timeout default, in both adapters and in the router.
DefaultTimeout == 120
\* The default of each adapter's own query_model, used when
\* query_models_parallel calls it without a timeout.
OllamaDefaultTimeout == 120
OpenRouterDefaultTimeout == 120
AdapterDefaultTimeout(cls) ==
    IF cls = "OllamaProvider" THEN OllamaDefaultTimeout ELSE OpenRouterDefaultTimeout

\* QueryResult | None.
None == [isNone |-> TRUE, content |-> PyNone, reasoning_details |-> PyNone]
QueryResult(content, rd) ==
    [isNone |-> FALSE, content |-> content, reasoning_details |-> rd]

Returned(v) == [raised |-> FALSE, exc |-> "none", value |-> v]
Raised(e)   == [raised |-> TRUE, exc |-> e, value |-> None]

\* dict.get: the value, or None when the key is missing.
MessageGet(message, key) ==
    IF key = "content"
    THEN (IF message.has_content THEN message.content ELSE PyNone)
    ELSE (IF message.has_rd THEN message.reasoning_details ELSE PyNone)

\* The try block: post, raise_for_status, json(), data['choices'][0]['message'].
\* Gives the message, or the exception raised on the way.
TryBody(resp, timeout) ==
    IF ~resp.connect THEN Raised("ConnectError")
    ELSE IF resp.latency > timeout THEN Raised("ReadTimeout")
    ELSE IF resp.fault # "none" THEN Raised(resp.fault)
    ELSE IF ~(resp.status >= 200 /\ resp.status < 300) THEN Raised("HTTPStatusError")
    ELSE IF ~resp.body.json THEN Raised("JSONDecodeError")
    ELSE IF ~resp.body.has_choices THEN Raised("KeyError")
    ELSE IF Len(resp.body.choices) = 0 THEN Raised("IndexError")
    ELSE IF ~resp.body.choices[1].has_message THEN Raised("KeyError")
    ELSE [raised |-> FALSE, exc |-> "none", message |-> resp.body.choices[1].message]

\* The except clauses of each adapter, in order; each returns None.
OllamaClausesMutNoCatchAll == <<"ConnectError", "HTTPStatusError", "TimeoutException">>

OllamaClauses == <<"ConnectError", "HTTPStatusError", "TimeoutException", "Exception">>

OpenRouterClausesMutHttpOnly == <<"HTTPError">>

OpenRouterClauses == <<"Exception">>

Handle(clauses, exc) ==
    IF CatchingClause(clauses, exc) # 0 THEN Returned(None) ELSE Raised(exc)

OllamaQueryModelMutSurfacesRd(resp, timeout) ==
    LET t == TryBody(resp, timeout) IN
    IF t.raised
    THEN Handle(OllamaClauses, t.exc)
    ELSE Returned(QueryResult(MessageGet(t.message, "content"),
                              MessageGet(t.message, "reasoning_details")))

OllamaQueryModel(resp, timeout) ==
    LET t == TryBody(resp, timeout) IN
    IF t.raised
    THEN Handle(OllamaClauses, t.exc)
    ELSE Returned(QueryResult(MessageGet(t.message, "content"), PyNone))

OpenRouterQueryModel(resp, timeout) ==
    LET t == TryBody(resp, timeout) IN
    IF t.raised
    THEN Handle(OpenRouterClauses, t.exc)
    ELSE Returned(QueryResult(MessageGet(t.message, "content"),
                              MessageGet(t.message, "reasoning_details")))

\* provider.query_model, dispatched on the instance's class.
ProviderQueryModel(cls, resp, timeout) ==
    IF cls = "OllamaProvider"
    THEN OllamaQueryModel(resp, timeout)
    ELSE OpenRouterQueryModel(resp, timeout)

----------------------------------------------------------------------------
(* asyncio.gather and Adapter.query_models_parallel.                       *)

Range(seq) == {seq[i] : i \in 1..Len(seq)}

\* gather(*tasks) once every task has ended: the list of their values, or
\* the exception of the first task in the list that raised.
Gather(outs) ==
    IF \E i \in 1..Len(outs) : outs[i].raised
    THEN Raised(outs[CHOOSE i \in 1..Len(outs) :
                        /\ outs[i].raised
                        /\ \A j \in 1..(i - 1) : ~outs[j].raised].exc)
    ELSE [raised |-> FALSE, exc |-> "none",
          value |-> [i \in 1..Len(outs) |-> outs[i].value]]

\* {k: v for k, v in zip(keys, values)}: a later pair replaces an earlier
\* one with the same key.
RECURSIVE DictZip(_, _)
DictZip(keys, values) ==
    IF Len(keys) = 0 \/ Len(values) = 0
    THEN << >>
    ELSE LET n    == IF Len(keys) < Len(values) THEN Len(keys) ELSE Len(values)
             rest == DictZip(SubSeq(keys, 1, n - 1), SubSeq(values, 1, n - 1))
         IN  [k \in (DOMAIN rest) \cup {keys[n]} |->
                 IF k = keys[n] THEN values[n] ELSE rest[k]]

DictZipMutDropsNone(keys, values) ==
    LET d == DictZip(keys, values) IN
    [k \in {x \in DOMAIN d : ~d[x].isNone} |-> d[k]]

DictZipMutAllOrNothing(keys, values) ==
    LET d == DictZip(keys, values) IN
    IF \E i \in 1..Len(values) : values[i].isNone
    THEN [k \in DOMAIN d |-> None]
    ELSE d

\* The mapping an adapter's query_models_parallel builds from the models
\* and the gathered responses.
ModelsToResponses(models, responses) == DictZip(models, responses)

\* Adapter.query_models_parallel once every query has ended: outs[i] is
\* what query_model did for models[i].
ProviderQueryModelsParallel(models, outs) ==
    LET g == Gather(outs) IN
    IF g.raised
    THEN [raised |-> TRUE, exc |-> g.exc, value |-> << >>]
    ELSE [raised |-> FALSE, exc |-> "none",
          value |-> ModelsToResponses(models, g.value)]

----------------------------------------------------------------------------
(* Router: query_models_parallel, up to its await.                         *)

\* Dict helpers: a dict is a function on its keys; << >> is the empty dict.
DictSet(d, k, v) == [x \in (DOMAIN d) \cup {k} |-> IF x = k THEN v ELSE d[x]]

\* d.update(e)
DictUpdate(d, e) ==
    [x \in (DOMAIN d) \cup (DOMAIN e) |-> IF x \in DOMAIN e THEN e[x] ELSE d[x]]

\* for model_spec, _ in items: d[model_spec] = None
RECURSIVE MarkNone(_, _)
MarkNone(d, items) ==
    IF Len(items) = 0 THEN d
    ELSE DictSet(MarkNone(d, SubSeq(items, 1, Len(items) - 1)),
                 items[Len(items)].spec, None)

\* The first loop: provider_groups after model_specs[1..n], in insertion
\* order.  An item is (model_spec, model_id); a spec that does not parse
\* goes to "_invalid" with model_id None.
RECURSIVE GroupSpecs(_, _)
GroupSpecs(mode, specs) ==
    IF Len(specs) = 0 THEN << >>
    ELSE LET n     == Len(specs)
             prev  == GroupSpecs(mode, SubSeq(specs, 1, n - 1))
             p     == parse_model_spec(mode, specs[n])
             name  == IF p.ok THEN p.provider ELSE "_invalid"
             item  == [spec |-> specs[n], model |-> IF p.ok THEN p.model ELSE PyNone]
         IN  IF \E i \in 1..Len(prev) : prev[i].name = name
             THEN LET i == CHOOSE i \in 1..Len(prev) : prev[i].name = name
                  IN  [prev EXCEPT ![i].items = Append(@, item)]
             ELSE Append(prev, [name |-> name, items |-> <<item>>])

NoResponse == Response(FALSE, 0, "none", 0, NoBody)

\* The request an adapter's query_model posts: where to, and the value of
\* its Authorization header (None when the header is not set).  inst was
\* built by get_provider, the OpenRouter one with api_key = key.
Bearer(key) == <<"Bearer", key>>
OpenRouterUrl == "https://openrouter.ai/api/v1/chat/completions"
OllamaEndpoint == "OLLAMA_BASE_URL/v1/chat/completions"

RequestMutAuthAlways(inst, key) ==
    IF inst.cls = "OpenRouterProvider"
    THEN [to |-> OpenRouterUrl, authorization |-> Bearer(key)]
    ELSE [to |-> OllamaEndpoint, authorization |-> Bearer(key)]

Request(inst, key) ==
    IF inst.cls = "OpenRouterProvider"
    THEN [to |-> OpenRouterUrl, authorization |-> Bearer(key)]
    ELSE [to |-> OllamaEndpoint, authorization |-> PyNone]

\* One provider.query_model coroutine of a batch.
NewQuery(model) == [model |-> model, st |-> "created", resp |-> NoResponse,
                    reqs |-> << >>]

\* query_provider_batch(provider, model_ids, specs_and_models), not yet run.
NewTask(prov, items) ==
    [prov           |-> prov,
     model_ids_list |-> [i \in 1..Len(items) |-> items[i].model],
     specs_list     |-> items,
     q              |-> [i \in 1..Len(items) |-> NewQuery(items[i].model)],
     st             |-> "running",
     exc            |-> "none",
     result         |-> << >>]

\* What the second loop does for one group, from the loop state s.
GroupStepMutEagerOllama(s, key, g) ==
    IF g.name = "_invalid"
    THEN LET r == get_provider(s.reg, s.cons, key, "ollama") IN
         [s EXCEPT !.all_results = MarkNone(@, g.items),
                   !.reg = r.reg, !.cons = r.cons]
    ELSE LET r == get_provider(s.reg, s.cons, key, g.name) IN
         IF r.raised
         THEN [s EXCEPT !.gets = Append(@, g.name),
                        !.all_results = MarkNone(@, g.items)]
         ELSE [s EXCEPT !.gets = Append(@, g.name),
                        !.reg = r.reg, !.cons = r.cons,
                        !.tasks = Append(@, NewTask(r.inst, g.items))]

GroupStepMutTaskPerItem(s, key, g) ==
    IF g.name = "_invalid"
    THEN [s EXCEPT !.all_results = MarkNone(@, g.items)]
    ELSE LET r == get_provider(s.reg, s.cons, key, g.name) IN
         IF r.raised
         THEN [s EXCEPT !.gets = Append(@, g.name),
                        !.all_results = MarkNone(@, g.items)]
         ELSE [s EXCEPT !.gets = Append(@, g.name),
                        !.reg = r.reg, !.cons = r.cons,
                        !.tasks = @ \o [i \in 1..Len(g.items) |->
                                           NewTask(r.inst, <<g.items[i]>>)]]

GroupStep(s, key, g) ==
    IF g.name = "_invalid"
    THEN [s EXCEPT !.all_results = MarkNone(@, g.items)]
    ELSE LET r == get_provider(s.reg, s.cons, key, g.name) IN
         IF r.raised
         THEN [s EXCEPT !.gets = Append(@, g.name),
                        !.all_results = MarkNone(@, g.items)]
         ELSE [s EXCEPT !.gets = Append(@, g.name),
                        !.reg = r.reg, !.cons = r.cons,
                        !.tasks = Append(@, NewTask(r.inst, g.items))]

\* The second loop over provider_groups.items().
RECURSIVE BuildTasks(_, _, _, _)
BuildTasks(groups, key, reg, cons) ==
    IF Len(groups) = 0
    THEN [reg |-> reg, cons |-> cons, all_results |-> << >>, tasks |-> << >>,
          gets |-> << >>]
    ELSE GroupStep(BuildTasks(SubSeq(groups, 1, Len(groups) - 1), key, reg, cons),
                   key, groups[Len(groups)])

\* The last loop: an entry of None for every input spec still missing.
RECURSIVE EnsureEntries(_, _)
EnsureEntries(d, specs) ==
    IF Len(specs) = 0 THEN d
    ELSE LET e == EnsureEntries(d, SubSeq(specs, 1, Len(specs) - 1)) IN
         IF specs[Len(specs)] \in DOMAIN e THEN e
         ELSE DictSet(e, specs[Len(specs)], None)

----------------------------------------------------------------------------
(* Router: query_provider_batch and the merge.                             *)

\* What query_model did for query qu of a task run by an adapter of class cls.
QueryOut(cls, qu) == ProviderQueryModel(cls, qu.resp, AdapterDefaultTimeout(cls))

TaskOuts(t) == [i \in 1..Len(t.q) |-> QueryOut(t.prov.cls, t.q[i])]

\* {spec: results[model_id] for spec, model_id in specs_list}
RECURSIVE MapBackMutKeyedByModel(_, _)
MapBackMutKeyedByModel(results, specs_list) ==
    IF Len(specs_list) = 0 THEN << >>
    ELSE LET it == specs_list[Len(specs_list)] IN
         DictSet(MapBackMutKeyedByModel(results, SubSeq(specs_list, 1, Len(specs_list) - 1)),
                 it.model, results[it.model])

RECURSIVE MapBack(_, _)
MapBack(results, specs_list) ==
    IF Len(specs_list) = 0 THEN << >>
    ELSE LET it == specs_list[Len(specs_list)] IN
         DictSet(MapBack(results, SubSeq(specs_list, 1, Len(specs_list) - 1)),
                 it.spec, results[it.model])

\* gather hands on an exception as soon as one of its tasks raised, and the
\* values once all ended.
GatherReadyMutAnyEnded(ended, outs) ==
    \/ Len(outs) = 0
    \/ \E i \in 1..Len(outs) : ended[i]

GatherReadyMutNeedsResults(ended, outs) ==
    /\ \A i \in 1..Len(outs) : ended[i]
    /\ \A i \in 1..Len(outs) : ~outs[i].raised /\ ~outs[i].value.isNone

GatherReady(ended, outs) ==
    \/ \A i \in 1..Len(outs) : ended[i]
    \/ \E i \in 1..Len(outs) : ended[i] /\ outs[i].raised

\* The outcomes gather sees: those of the tasks that ended.
Ended(ended, outs) ==
    [i \in 1..Len(outs) |-> IF ended[i] THEN outs[i] ELSE Returned(None)]

\* for result_dict in provider_results: all_results.update(result_dict)
MergeAllMutByModelId(d, tasks) ==
    LET routed   == UNION {DOMAIN tasks[t].result : t \in 1..Len(tasks)}
        items    == UNION {{<<t, i>> : i \in 1..Len(tasks[t].specs_list)} :
                              t \in 1..Len(tasks)}
        modelOf(x) == LET ti == CHOOSE ti \in items :
                                    tasks[ti[1]].specs_list[ti[2]].spec = x
                      IN  tasks[ti[1]].specs_list[ti[2]].model
        lastOf(x)  == CHOOSE ti \in items :
                          /\ tasks[ti[1]].specs_list[ti[2]].model = modelOf(x)
                          /\ \A tj \in items :
                                tasks[tj[1]].specs_list[tj[2]].model = modelOf(x)
                                    => tj[1] <= ti[1]
    IN  [x \in (DOMAIN d) \cup routed |->
            IF x \in routed
            THEN tasks[lastOf(x)[1]].result[tasks[lastOf(x)[1]].specs_list[lastOf(x)[2]].spec]
            ELSE d[x]]

RECURSIVE MergeAll(_, _)
MergeAll(d, tasks) ==
    IF Len(tasks) = 0 THEN d
    ELSE DictUpdate(MergeAll(d, SubSeq(tasks, 1, Len(tasks) - 1)),
                    tasks[Len(tasks)].result)

----------------------------------------------------------------------------
(* Inputs.                                                                 *)

\* Specifiers handed to the router.
DispatchSpecs == {"m", "n", "ollama:m", "openrouter:m"}
\* Specifiers handed to the router where calls follow one another.
CallSpecs == {"m", "ollama:m", "openrouter:m"}
\* Model ids handed directly to an adapter.
ModelIds == {"m", "n"}
\* Names handed directly to get_provider.
ProviderNames == {"openrouter", "ollama", "mixed"}
\* Specifiers handed directly to parse_model_spec: bare, tagged, with an
\* unknown tag, a tag without the separator, a tag with nothing after it.
ParseSpecs == {"m", "ollama", "ollama:", "ollama:m", "openrouter:m",
               "openrouter:n", "foo:m", "ollama:openrouter:m"}
\* Timeouts handed to query_model.
Timeouts == {DefaultTimeout, 2 * DefaultTimeout}

SeqsUpTo(S, n) == UNION {[1..k -> S] : k \in 0..n}

----------------------------------------------------------------------------
(* Initial state: the module has been imported, nothing has been called.   *)

NoRet == [raised |-> FALSE, exc |-> "none", value |-> << >>]
NoQm == [spec |-> "", timeout |-> 0, prov |-> NoInstance, model |-> "",
         sent |-> FALSE, resp |-> NoResponse, value |-> None, exc |-> "none",
         reqs |-> << >>]
NoGet == [name |-> "", raised |-> FALSE, inst |-> NoInstance, found |-> FALSE]
NoPrev == [op |-> "none", specs |-> << >>, value |-> << >>, get |-> NoGet,
           queries |-> {}]
IdleThread == [pc |-> "idle", name |-> "", obj |-> NoInstance, value |-> NoInstance]
NoAdapter == [op |-> "none", cls |-> "none", models |-> << >>, resps |-> << >>,
              timeout |-> 0, out |-> Returned(None), many |-> << >>]

Init ==
    /\ LLM_PROVIDER \in VALID_PROVIDERS
    /\ OPENROUTER_API_KEY \in KeyValues
    /\ ConfigValid(LLM_PROVIDER, OPENROUTER_API_KEY)
    /\ provider_instances = [k \in {"openrouter", "ollama"} |-> NoInstance]
    /\ constructed = [k \in {"openrouter", "ollama"} |-> 0]
    /\ pc = "idle"
    /\ model_specs = << >>
    /\ all_results = << >>
    /\ provider_tasks = << >>
    /\ ret = NoRet
    /\ gets = << >>
    /\ qm = NoQm
    /\ calls = 0
    /\ last_get = NoGet
    /\ previous = NoPrev
    /\ threads = [t \in 1..MaxThreads |-> IdleThread]
    /\ adapter = NoAdapter
    /\ parsing = << >>

----------------------------------------------------------------------------
(* query_models_parallel as steps of the event loop.                       *)

\* The call up to "await asyncio.gather": both loops, and the return when
\* there is nothing to await.
DispatchCall(specs) ==
    /\ pc = "idle"
    /\ LET b == BuildTasks(GroupSpecs(LLM_PROVIDER, specs), OPENROUTER_API_KEY,
                           provider_instances, constructed)
       IN  /\ provider_instances' = b.reg
           /\ constructed' = b.cons
           /\ gets' = b.gets
           /\ provider_tasks' = b.tasks
           /\ IF Len(b.tasks) = 0
              THEN /\ all_results' = EnsureEntries(b.all_results, specs)
                   /\ ret' = [raised |-> FALSE, exc |-> "none",
                              value |-> EnsureEntries(b.all_results, specs)]
                   /\ pc' = "done"
              ELSE /\ all_results' = b.all_results
                   /\ ret' = NoRet
                   /\ pc' = "gather"
    /\ model_specs' = specs
    /\ calls' = calls + 1
    /\ UNCHANGED <<configVars, parsing, qm, last_get, previous, threads, adapter>>

Dispatch(S, maxlen) ==
    /\ pc = "idle"
    /\ \E specs \in SeqsUpTo(S, maxlen) : DispatchCall(specs)

\* A query_model coroutine of a batch runs to its await: the request is sent.
SendQueryMutOneAtATime(t, i) ==
    /\ pc = "gather"
    /\ provider_tasks[t].q[i].st = "created"
    /\ \A j \in 1..(i - 1) : provider_tasks[t].q[j].st = "done"
    /\ provider_tasks' = [provider_tasks EXCEPT
                            ![t].q[i].st = "sent",
                            ![t].q[i].reqs = Append(@, Request(provider_tasks[t].prov,
                                                               OPENROUTER_API_KEY))]
    /\ UNCHANGED <<configVars, parsing, registryVars, pc, model_specs, all_results, ret,
                   gets, qm, calls, last_get, previous, threads, adapter>>

SendQuery(t, i) ==
    /\ pc = "gather"
    /\ provider_tasks[t].q[i].st = "created"
    /\ provider_tasks' = [provider_tasks EXCEPT
                            ![t].q[i].st = "sent",
                            ![t].q[i].reqs = Append(@, Request(provider_tasks[t].prov,
                                                               OPENROUTER_API_KEY))]
    /\ UNCHANGED <<configVars, parsing, registryVars, pc, model_specs, all_results, ret,
                   gets, qm, calls, last_get, previous, threads, adapter>>

\* The exchange of a query ends as resp says; query_model runs to its end.
CompleteQueryMutRetries(t, i, resp) ==
    /\ pc = "gather"
    /\ provider_tasks[t].q[i].st = "sent"
    /\ provider_tasks' = [provider_tasks EXCEPT
          ![t].q[i].st = IF ProviderQueryModel(provider_tasks[t].prov.cls, resp,
                                               AdapterDefaultTimeout(provider_tasks[t].prov.cls)).value.isNone
                            /\ Len(provider_tasks[t].q[i].reqs) < 2
                         THEN "created" ELSE "done",
          ![t].q[i].resp = resp]
    /\ UNCHANGED <<configVars, parsing, registryVars, pc, model_specs, all_results, ret,
                   gets, qm, calls, last_get, previous, threads, adapter>>

CompleteQuery(t, i, resp) ==
    /\ pc = "gather"
    /\ provider_tasks[t].q[i].st = "sent"
    /\ provider_tasks' = [provider_tasks EXCEPT ![t].q[i].st = "done",
                                                ![t].q[i].resp = resp]
    /\ UNCHANGED <<configVars, parsing, registryVars, pc, model_specs, all_results, ret,
                   gets, qm, calls, last_get, previous, threads, adapter>>

\* query_provider_batch resumes from the adapter's query_models_parallel and
\* maps its results back to the specs.
BatchReturn(t) ==
    /\ pc = "gather"
    /\ provider_tasks[t].st = "running"
    /\ LET task  == provider_tasks[t]
           ended == [i \in 1..Len(task.q) |-> task.q[i].st = "done"]
           outs  == TaskOuts(task)
       IN  /\ GatherReady(ended, outs)
           /\ LET r == ProviderQueryModelsParallel(task.model_ids_list, Ended(ended, outs))
              IN  provider_tasks' =
                    IF r.raised
                    THEN [provider_tasks EXCEPT ![t].st = "raised", ![t].exc = r.exc]
                    ELSE [provider_tasks EXCEPT
                            ![t].st = "returned",
                            ![t].result = MapBack(r.value, task.specs_list)]
    /\ UNCHANGED <<configVars, parsing, registryVars, pc, model_specs, all_results, ret,
                   gets, qm, calls, last_get, previous, threads, adapter>>

\* query_models_parallel resumes from gather: merge, fill in, return.
DispatchReturnMutKeepsResults ==
    /\ pc = "gather"
    /\ LET ended == [t \in 1..Len(provider_tasks) |-> provider_tasks[t].st # "running"]
           outs  == [t \in 1..Len(provider_tasks) |->
                        IF provider_tasks[t].st = "raised"
                        THEN Raised(provider_tasks[t].exc)
                        ELSE Returned(None)]
       IN  /\ GatherReady(ended, outs)
           /\ LET g == Gather(Ended(ended, outs)) IN
              IF g.raised
              THEN /\ pc' = "raised"
                   /\ ret' = [raised |-> TRUE, exc |-> g.exc, value |-> << >>]
                   /\ UNCHANGED all_results
              ELSE LET m == EnsureEntries(MergeAll(all_results, provider_tasks),
                                          model_specs)
                       d == [x \in DOMAIN m |->
                               IF x \in DOMAIN previous.value
                               THEN previous.value[x] ELSE m[x]]
                   IN  /\ pc' = "done"
                       /\ all_results' = d
                       /\ ret' = [raised |-> FALSE, exc |-> "none", value |-> d]
    /\ UNCHANGED <<configVars, parsing, registryVars, model_specs, provider_tasks,
                   gets, qm, calls, last_get, previous, threads, adapter>>

DispatchReturn ==
    /\ pc = "gather"
    /\ LET ended == [t \in 1..Len(provider_tasks) |-> provider_tasks[t].st # "running"]
           outs  == [t \in 1..Len(provider_tasks) |->
                        IF provider_tasks[t].st = "raised"
                        THEN Raised(provider_tasks[t].exc)
                        ELSE Returned(None)]
       IN  /\ GatherReady(ended, outs)
           /\ LET g == Gather(Ended(ended, outs)) IN
              IF g.raised
              THEN /\ pc' = "raised"
                   /\ ret' = [raised |-> TRUE, exc |-> g.exc, value |-> << >>]
                   /\ UNCHANGED all_results
              ELSE LET d == EnsureEntries(MergeAll(all_results, provider_tasks),
                                          model_specs)
                   IN  /\ pc' = "done"
                       /\ all_results' = d
                       /\ ret' = [raised |-> FALSE, exc |-> "none", value |-> d]
    /\ UNCHANGED <<configVars, parsing, registryVars, model_specs, provider_tasks,
                   gets, qm, calls, last_get, previous, threads, adapter>>

----------------------------------------------------------------------------
(* The single-specifier route, query_model of the router.                  *)

\* except ValueError / except Exception: both return None.
RouterClauses == <<"ValueError", "Exception">>

\* The call up to the await of provider.query_model: parse, get_provider,
\* and the request sent; or the return of None when one of them raised.
QueryModelCall(spec, timeout) ==
    /\ pc = "idle"
    /\ LET p == parse_model_spec(LLM_PROVIDER, spec) IN
       IF ~p.ok
       THEN /\ qm' = [NoQm EXCEPT !.spec = spec, !.timeout = timeout,
                                  !.value = Handle(RouterClauses, p.exc).value,
                                  !.exc = Handle(RouterClauses, p.exc).exc]
            /\ pc' = IF Handle(RouterClauses, p.exc).raised THEN "qm_raised" ELSE "qm_done"
            /\ gets' = << >>
            /\ UNCHANGED registryVars
       ELSE LET r == get_provider(provider_instances, constructed,
                                  OPENROUTER_API_KEY, p.provider)
            IN  /\ provider_instances' = r.reg
                /\ constructed' = r.cons
                /\ gets' = <<p.provider>>
                /\ IF r.raised
                   THEN /\ qm' = [NoQm EXCEPT !.spec = spec, !.timeout = timeout,
                                              !.value = Handle(RouterClauses, r.exc).value,
                                              !.exc = Handle(RouterClauses, r.exc).exc]
                        /\ pc' = IF Handle(RouterClauses, r.exc).raised
                                 THEN "qm_raised" ELSE "qm_done"
                   ELSE /\ qm' = [NoQm EXCEPT !.spec = spec, !.timeout = timeout,
                                              !.prov = r.inst, !.model = p.model,
                                              !.sent = TRUE,
                                              !.reqs = <<Request(r.inst, OPENROUTER_API_KEY)>>]
                        /\ pc' = "qm_await"
    /\ calls' = calls + 1
    /\ UNCHANGED <<configVars, parsing, model_specs, all_results, provider_tasks, ret,
                   last_get, previous, threads, adapter>>

\* The exchange ends as resp says; the adapter's query_model and then the
\* router's run to their end.
QueryModelCompleteMutDropsResult(resp) ==
    /\ pc = "qm_await"
    /\ qm' = [qm EXCEPT !.resp = resp, !.value = None, !.exc = "none"]
    /\ pc' = "qm_done"
    /\ UNCHANGED <<configVars, parsing, registryVars, model_specs, all_results,
                   provider_tasks, ret, gets, calls, last_get, previous,
                   threads, adapter>>

QueryModelComplete(resp) ==
    /\ pc = "qm_await"
    /\ LET out == ProviderQueryModel(qm.prov.cls, resp, qm.timeout)
           fin == IF out.raised THEN Handle(RouterClauses, out.exc) ELSE out
       IN  /\ qm' = [qm EXCEPT !.resp = resp, !.value = fin.value, !.exc = fin.exc]
           /\ pc' = IF fin.raised THEN "qm_raised" ELSE "qm_done"
    /\ UNCHANGED <<configVars, parsing, registryVars, model_specs, all_results,
                   provider_tasks, ret, gets, calls, last_get, previous,
                   threads, adapter>>

----------------------------------------------------------------------------
(* Calls one after the other, and direct calls of get_provider.            *)

\* A caller on the event loop calls get_provider(name).
GetProviderCall(name) ==
    /\ pc = "idle"
    /\ pc' = "get_done"
    /\ calls' = calls + 1
    /\ LET r == get_provider(provider_instances, constructed,
                             OPENROUTER_API_KEY, name)
       IN  /\ provider_instances' = r.reg
           /\ constructed' = r.cons
           /\ last_get' = [name |-> name, raised |-> r.raised, inst |-> r.inst,
                           found |-> (name \in DOMAIN provider_instances
                                      /\ provider_instances[name] # NoInstance)]
    /\ UNCHANGED <<configVars, parsing, dispatchVars, qm, previous, threads, adapter>>

\* What the caller has seen of the call that ended: for which specifier a
\* request went where, for which model id, and how the exchange ended.
QueriesMade ==
    IF pc \in {"qm_done", "qm_raised"}
    THEN (IF qm.sent
          THEN {[spec |-> qm.spec, to |-> qm.reqs[1].to, model |-> qm.model,
                 resp |-> qm.resp]}
          ELSE {})
    ELSE UNION {{[spec  |-> provider_tasks[t].specs_list[i].spec,
                  to    |-> r.to,
                  model |-> provider_tasks[t].q[i].model,
                  resp  |-> provider_tasks[t].q[i].resp] :
                    r \in Range(provider_tasks[t].q[i].reqs)} :
                <<t, i>> \in UNION {{<<t2, i2>> : i2 \in 1..Len(provider_tasks[t2].q)} :
                                       t2 \in 1..Len(provider_tasks)}}

\* The call has ended; its caller makes the next one.
NextCall ==
    /\ pc \in {"done", "raised", "qm_done", "qm_raised", "get_done"}
    /\ calls < MaxCalls
    /\ previous' = [op |-> IF pc \in {"done", "raised"} THEN "dispatch"
                           ELSE IF pc = "get_done" THEN "get_provider"
                           ELSE "query_model",
                    specs |-> IF pc \in {"qm_done", "qm_raised"}
                              THEN <<qm.spec>> ELSE model_specs,
                    value |-> IF pc = "qm_done"
                              THEN [x \in {qm.spec} |-> qm.value] ELSE ret.value,
                    get |-> last_get,
                    queries |-> QueriesMade]
    /\ pc' = "idle"
    /\ last_get' = NoGet
    /\ model_specs' = << >>
    /\ all_results' = << >>
    /\ provider_tasks' = << >>
    /\ ret' = NoRet
    /\ gets' = << >>
    /\ qm' = NoQm
    /\ UNCHANGED <<configVars, parsing, registryVars, calls, threads, adapter>>

----------------------------------------------------------------------------
(* get_provider called from OS threads: a thread can be preempted between  *)
(* the membership test, the constructor call, the store and the final read.*)

\* Lines 42-49: the name is checked and the registry is read.
ThreadCheck(t, name) ==
    /\ threads[t].pc = "idle"
    /\ threads' = [threads EXCEPT ![t] =
         IF name \notin {"openrouter", "ollama"}
         THEN [@ EXCEPT !.pc = "raised", !.name = name]
         ELSE IF provider_instances[name] # NoInstance
         THEN [@ EXCEPT !.pc = "returned", !.name = name,
                        !.value = provider_instances[name]]
         ELSE [@ EXCEPT !.pc = "checked", !.name = name]]
    /\ UNCHANGED <<configVars, parsing, registryVars, callVars, last_get, adapter>>

\* Lines 52-64, right-hand sides: the key is checked, the adapter is built.
ThreadConstruct(t) ==
    /\ threads[t].pc = "checked"
    /\ IF threads[t].name = "openrouter" /\ ~Truthy(OPENROUTER_API_KEY)
       THEN /\ threads' = [threads EXCEPT ![t].pc = "raised"]
            /\ UNCHANGED constructed
       ELSE /\ threads' = [threads EXCEPT ![t].pc = "constructed",
                              ![t].obj = NewInstance(threads[t].name, constructed)]
            /\ constructed' = [constructed EXCEPT ![threads[t].name] = @ + 1]
    /\ UNCHANGED <<configVars, parsing, provider_instances, callVars, last_get, adapter>>

\* Lines 58 and 62: the new adapter is stored in _provider_instances.
ThreadStore(t) ==
    /\ threads[t].pc = "constructed"
    /\ provider_instances' = [provider_instances EXCEPT ![threads[t].name] = threads[t].obj]
    /\ threads' = [threads EXCEPT ![t].pc = "stored"]
    /\ UNCHANGED <<configVars, parsing, constructed, callVars, last_get, adapter>>

\* Line 66: return _provider_instances[provider_name].
ThreadReturn(t) ==
    /\ threads[t].pc = "stored"
    /\ threads' = [threads EXCEPT ![t].pc = "returned",
                                  ![t].value = provider_instances[threads[t].name]]
    /\ UNCHANGED <<configVars, parsing, registryVars, callVars, last_get, adapter>>

----------------------------------------------------------------------------
(* Direct calls of the adapters' methods.                                  *)

AdapterClasses == {"OllamaProvider", "OpenRouterProvider"}

\* provider.query_model(model, messages, timeout), the exchange ending as resp.
AdapterQueryOne(cls, model, timeout, resp) ==
    /\ adapter' = [op |-> "query_model", cls |-> cls, models |-> <<model>>,
                   resps |-> <<resp>>, timeout |-> timeout,
                   out |-> ProviderQueryModel(cls, resp, timeout),
                   many |-> << >>]
    /\ UNCHANGED <<configVars, parsing, registryVars, callVars, last_get, threads>>

\* provider.query_models_parallel(models, messages), the exchange of
\* models[i] ending as resps[i].
AdapterQueryMany(cls, models, resps) ==
    /\ LET outs == [i \in 1..Len(models) |->
                       ProviderQueryModel(cls, resps[i], AdapterDefaultTimeout(cls))]
           r    == ProviderQueryModelsParallel(models, outs)
       IN  adapter' = [op |-> "query_models_parallel", cls |-> cls,
                       models |-> models, resps |-> resps,
                       timeout |-> AdapterDefaultTimeout(cls),
                       out |-> [raised |-> r.raised, exc |-> r.exc, value |-> None],
                       many |-> r.value]
    /\ UNCHANGED <<configVars, parsing, registryVars, callVars, last_get, threads>>

\* parse_model_spec(model_spec) called directly, under the configured
\* LLM_PROVIDER.
ParseCall(model_spec) ==
    /\ Len(parsing) < MaxParses
    /\ parsing' = Append(parsing, [spec |-> model_spec,
                                   out  |-> parse_model_spec(LLM_PROVIDER, model_spec)])
    /\ UNCHANGED <<configVars, registryVars, callVars, last_get, threads, adapter>>

----------------------------------------------------------------------------
(* Specifications.                                                         *)

SendQueries ==
    /\ pc = "gather"
    /\ \E t \in 1..Len(provider_tasks) : \E i \in 1..Len(provider_tasks[t].q) :
          SendQuery(t, i)

CompleteQueries(R) ==
    /\ pc = "gather"
    /\ \E t \in 1..Len(provider_tasks) : \E i \in 1..Len(provider_tasks[t].q) :
          \E resp \in R : CompleteQuery(t, i, resp)

BatchReturns ==
    /\ pc = "gather"
    /\ \E t \in 1..Len(provider_tasks) : BatchReturn(t)

QueryModelCalls(S, T) ==
    /\ pc = "idle"
    /\ \E spec \in S : \E timeout \in T : QueryModelCall(spec, timeout)

QueryModelCompletes(R) ==
    /\ pc = "qm_await"
    /\ \E resp \in R : QueryModelComplete(resp)

GetProviderCalls ==
    /\ pc = "idle"
    /\ \E name \in ProviderNames : GetProviderCall(name)

\* One router-level call, with every interleaving of its queries.
Next ==
    \/ Dispatch(DispatchSpecs, MaxSpecs)
    \/ SendQueries
    \/ CompleteQueries(DispatchResponses)
    \/ BatchReturns
    \/ DispatchReturn
    \/ QueryModelCalls(DispatchSpecs, Timeouts)
    \/ QueryModelCompletes(Responses)

Spec == Init /\ [][Next]_vars

\* One query_models_parallel call under the event loop's scheduling: a
\* coroutine that can run is run, and every exchange that was started ends
\* (with a response, an error or the expiry of its timeout).
NextLive ==
    \/ Dispatch(CallSpecs, MaxLiveSpecs)
    \/ SendQueries
    \/ CompleteQueries(CallResponses)
    \/ BatchReturns
    \/ DispatchReturn

Fairness ==
    /\ WF_vars(SendQueries)
    /\ WF_vars(CompleteQueries(CallResponses))
    /\ WF_vars(BatchReturns)
    /\ WF_vars(DispatchReturn)

SpecLive == Init /\ [][NextLive]_vars /\ Fairness

\* Calls one after the other: query_models_parallel, query_model and
\* get_provider in any order.
NextCalls ==
    \/ Dispatch(CallSpecs, MaxSeqSpecs)
    \/ SendQueries
    \/ CompleteQueries(CallResponses)
    \/ BatchReturns
    \/ DispatchReturn
    \/ QueryModelCalls(CallSpecs, {DefaultTimeout})
    \/ QueryModelCompletes(CallResponses)
    \/ GetProviderCalls
    \/ NextCall

SpecCalls == Init /\ [][NextCalls]_vars

\* get_provider called from OS threads.
ThreadChecks == \E t \in 1..MaxThreads : \E name \in ProviderNames : ThreadCheck(t, name)
ThreadConstructs == \E t \in 1..MaxThreads : ThreadConstruct(t)
ThreadStores == \E t \in 1..MaxThreads : ThreadStore(t)
ThreadReturns == \E t \in 1..MaxThreads : ThreadReturn(t)

NextThreads ==
    \/ ThreadChecks
    \/ ThreadConstructs
    \/ ThreadStores
    \/ ThreadReturns

SpecThreads == Init /\ [][NextThreads]_vars

\* The adapters' methods called directly.
AdapterQueryOnes ==
    /\ adapter.op = "none"
    /\ \E cls \in AdapterClasses : \E model \in ModelIds :
          \E timeout \in Timeouts : \E resp \in Responses :
             AdapterQueryOne(cls, model, timeout, resp)

AdapterQueryManys ==
    /\ adapter.op = "none"
    /\ \E cls \in AdapterClasses : \E models \in SeqsUpTo(ModelIds, MaxModels) :
          \E resps \in [1..Len(models) -> Responses] :
             AdapterQueryMany(cls, models, resps)

NextAdapter ==
    \/ AdapterQueryOnes
    \/ AdapterQueryManys

SpecAdapter == Init /\ [][NextAdapter]_vars

\* parse_model_spec called directly.
ParseCalls ==
    /\ Len(parsing) < MaxParses
    /\ \E model_spec \in ParseSpecs : ParseCall(model_spec)

NextParse == ParseCalls

SpecParse == Init /\ [][NextParse]_vars

----------------------------------------------------------------------------
(* Vocabulary of the properties.                                           *)

Kinds == {"openrouter", "ollama"}
Tasks == 1..Len(provider_tasks)
Items(t) == 1..Len(provider_tasks[t].q)
ItemSpec(t, i) == provider_tasks[t].specs_list[i].spec
ItemModel(t, i) == provider_tasks[t].q[i].model
ItemDone(t, i) == provider_tasks[t].q[i].st = "done"
\* What query_model did for the query launched for item i of task t.
Out(t, i) == QueryOut(provider_tasks[t].prov.cls, provider_tasks[t].q[i])
QuerySucceeded(t, i) == ItemDone(t, i) /\ ~Out(t, i).raised /\ ~Out(t, i).value.isNone
QueryFailed(t, i) == ItemDone(t, i) /\ (Out(t, i).raised \/ Out(t, i).value.isNone)
\* The items of task t that ask the same backend for the same model id as i.
SameModel(t, i) == {j \in Items(t) : ItemModel(t, j) = ItemModel(t, i)}

\* A specifier with no recognized prefix followed by the separator.
Bare(spec) == ~startswith(spec, "ollama:") /\ ~startswith(spec, "openrouter:")
Parsed(spec) == parse_model_spec(LLM_PROVIDER, spec)
Destined(spec, k) == Parsed(spec).ok /\ Parsed(spec).provider = k
\* The current call asked get_provider for kind k and no adapter came of it.
FailedKind(k) == k \in Range(gets) /\ provider_instances[k] = NoInstance

\* The backend failure classes: connection refused, non-2xx status, timeout
\* expiry, malformed body, unexpected exception.
BackendFailure(resp, timeout) ==
    \/ resp \in {RespRefused, RespNotFound, RespServerErr, RespNotJson,
                 RespNoChoices, RespEmpty, RespNoMsg, RespUnexpected}
    \/ resp.latency > timeout

----------------------------------------------------------------------------
(* C1.  The mapping query_models_parallel returns for a non-empty list of  *)
(* specifiers has exactly the distinct input specifiers as its keys: none  *)
(* is missing, none is extra.                                              *)
C1_KeySetIsInputSet ==
    (pc = "done" /\ Len(model_specs) > 0) =>
        DOMAIN ret.value = Range(model_specs)

\* A call with a repeated specifier, a failed and a successful query.
C1_Witness ==
    /\ pc = "done"
    /\ Len(model_specs) = 3
    /\ Cardinality(Range(model_specs)) = 2
    /\ DOMAIN ret.value = Range(model_specs)
    /\ \E t \in Tasks : \E i \in Items(t) : QueryFailed(t, i)
    /\ \E t \in Tasks : \E i \in Items(t) : QuerySucceeded(t, i)

(* C2.  When the query for one model id fails, every sibling model id, in  *)
(* the same backend group or in another, keeps its result: a sibling whose *)
(* own queries succeeded has a successful, non-absent result of its own in *)
(* the output.                                                             *)
C2_SiblingsUnaffected ==
    pc = "done" =>
        \A t \in Tasks : \A i \in Items(t) :
            ( /\ \E t2 \in Tasks : \E i2 \in Items(t2) :
                    /\ QueryFailed(t2, i2)
                    /\ (t2 # t \/ ItemModel(t2, i2) # ItemModel(t, i))
              /\ \A j \in SameModel(t, i) : QuerySucceeded(t, j) )
            => /\ ItemSpec(t, i) \in DOMAIN ret.value
               /\ ~ret.value[ItemSpec(t, i)].isNone
               /\ ret.value[ItemSpec(t, i)] \in {Out(t, j).value : j \in SameModel(t, i)}

\* One query failed; a sibling in its group and a sibling in the other
\* group succeeded and have their results.
C2_Witness ==
    /\ pc = "done"
    /\ \E t \in Tasks : \E i \in Items(t) : \E j \in Items(t) : \E t2 \in Tasks : \E k \in Items(t2) :
          /\ t2 # t
          /\ ItemModel(t, i) # ItemModel(t, j)
          /\ QueryFailed(t, i)
          /\ QuerySucceeded(t, j)
          /\ QuerySucceeded(t2, k)
          /\ ~ret.value[ItemSpec(t, j)].isNone
          /\ ~ret.value[ItemSpec(t2, k)].isNone

(* C3.  Two different specifiers of one call that resolve to the same      *)
(* backend and model id each have an entry whose value is the outcome of   *)
(* the query launched for that specifier.                                  *)
C3_EntriesPerOrigin ==
    pc = "done" =>
        \A t \in Tasks : \A i \in Items(t) : \A j \in SameModel(t, i) :
            ItemSpec(t, i) # ItemSpec(t, j) =>
                /\ ret.value[ItemSpec(t, i)] = Out(t, i).value
                /\ ret.value[ItemSpec(t, j)] = Out(t, j).value

(* C4.  In mixed mode a specifier without a recognized prefix is absent in *)
(* the output and no adapter is called on its behalf; a call with only     *)
(* such specifiers calls no adapter at all.                                *)
C4_MixedBareNeverRouted ==
    (LLM_PROVIDER = "mixed" /\ pc \in {"gather", "done", "raised"}) =>
        /\ \A s \in Range(model_specs) : Bare(s) =>
              /\ \A t \in Tasks : \A i \in Items(t) : ItemSpec(t, i) # s
              /\ pc = "done" => (s \in DOMAIN ret.value /\ ret.value[s] = None)
        /\ (\A s \in Range(model_specs) : Bare(s)) =>
              (Len(provider_tasks) = 0 /\ pc = "done")

\* A mixed-mode call with a bare specifier beside a tagged one that was
\* queried with success.
C4_Witness ==
    /\ LLM_PROVIDER = "mixed"
    /\ pc = "done"
    /\ \E s \in Range(model_specs) : Bare(s) /\ ret.value[s] = None
    /\ \E t \in Tasks : \E i \in Items(t) : QuerySucceeded(t, i)

\* The specifier of item i of task t stands once in the call's input.
OnlyOrigin(t, i) ==
    Cardinality({n \in 1..Len(model_specs) : model_specs[n] = ItemSpec(t, i)}) = 1

(* C5.  No error leaves query_models_parallel or the router's query_model  *)
(* as an exception: the call returns, and a specifier that did not parse,  *)
(* whose adapter could not be built or whose query failed is absent in the *)
(* result.                                                                 *)
C5_NoExceptionEscapes ==
    /\ pc \notin {"raised", "qm_raised"}
    /\ ~ret.raised
    /\ \A t \in Tasks : provider_tasks[t].st # "raised"
    /\ pc = "qm_done" =>
          ( ( \/ ~Parsed(qm.spec).ok
              \/ \E k \in Kinds : Destined(qm.spec, k) /\ FailedKind(k)
              \/ qm.sent /\ BackendFailure(qm.resp, qm.timeout) )
            => (qm.value = None /\ qm.exc = "none") )
    /\ pc = "done" =>
          /\ \A s \in Range(model_specs) :
                /\ s \in DOMAIN ret.value
                /\ ( \/ ~Parsed(s).ok
                     \/ \E k \in Kinds : Destined(s, k) /\ FailedKind(k) )
                   => ret.value[s] = None
          /\ \A t \in Tasks : \A i \in Items(t) :
                (OnlyOrigin(t, i) /\ QueryFailed(t, i)) =>
                    ret.value[ItemSpec(t, i)] = None

(* C6.  When the adapter of one kind cannot be built, every specifier of   *)
(* the call destined for that kind is absent and no query is sent for it,  *)
(* while the specifiers of the other kind are still queried and each gets  *)
(* exactly the outcome of its own query.                                   *)
C6_ConfigFailureIsPerKind ==
    pc = "done" =>
        \A k \in Kinds : FailedKind(k) =>
            /\ \A s \in Range(model_specs) : Destined(s, k) =>
                  /\ ret.value[s] = None
                  /\ \A t \in Tasks : \A i \in Items(t) : ItemSpec(t, i) # s
            /\ \A n \in 1..Len(model_specs) :
                  (Parsed(model_specs[n]).ok /\ ~Destined(model_specs[n], k)) =>
                      \E t \in Tasks : \E i \in Items(t) :
                          /\ ItemSpec(t, i) = model_specs[n]
                          /\ ItemModel(t, i) = Parsed(model_specs[n]).model
                          /\ provider_tasks[t].prov = provider_instances[Parsed(model_specs[n]).provider]
                          /\ ItemDone(t, i)
                          /\ OnlyOrigin(t, i) =>
                                ret.value[model_specs[n]] = Out(t, i).value

(* C7.  However the callers of get_provider are interleaved, the adapter   *)
(* constructor runs at most once per kind and all callers of one kind get  *)
(* the same instance.                                                      *)
C7_OneConstructionPerKind ==
    /\ \A k \in Kinds : constructed[k] <= 1
    /\ \A t1 \in 1..MaxThreads : \A t2 \in 1..MaxThreads :
          ( /\ threads[t1].pc = "returned"
            /\ threads[t2].pc = "returned"
            /\ threads[t1].name = threads[t2].name )
          => threads[t1].value = threads[t2].value

\* One step of the registry: a stored entry stays, the constructor runs for
\* a kind only while nothing is stored for it, and whoever obtains an
\* adapter of a kind holds the stored instance.
C8_Step ==
    \A k \in Kinds :
        /\ provider_instances[k] # NoInstance =>
              /\ provider_instances'[k] = provider_instances[k]
              /\ constructed'[k] = constructed[k]
        /\ (provider_instances[k] = NoInstance /\ provider_instances'[k] # NoInstance) =>
              constructed'[k] = 1
        /\ (last_get'.name = k /\ ~last_get'.raised) =>
              last_get'.inst = provider_instances'[k]
        /\ (qm'.sent /\ Destined(qm'.spec, k)) => qm'.prov = provider_instances'[k]
        /\ \A t \in 1..Len(provider_tasks') : \A i \in 1..Len(provider_tasks'[t].q) :
              Destined(provider_tasks'[t].specs_list[i].spec, k) =>
                  provider_tasks'[t].prov = provider_instances'[k]

(* C8.  Over calls of get_provider, query_model and query_models_parallel  *)
(* made one after the other, the first successful get_provider for a kind  *)
(* constructs and stores one adapter; every later get for that kind        *)
(* returns the stored instance without constructing again; a stored entry  *)
(* is never replaced or removed.                                           *)
C8_RegistryEntryIsStable == [][C8_Step]_vars

\* A later get_provider call that found the instance stored by an earlier
\* call.
C8_Witness ==
    /\ pc = "get_done"
    /\ previous.op # "none"
    /\ last_get.found
    /\ ~last_get.raised
    /\ last_get.inst = provider_instances[last_get.name]
    /\ constructed[last_get.name] = 1

(* C9.  For both adapters, query_models_parallel returns a mapping with    *)
(* exactly one entry per input model id, whatever succeeded or failed.     *)
C9_OneEntryPerModel ==
    adapter.op = "query_models_parallel" =>
        /\ ~adapter.out.raised
        /\ DOMAIN adapter.many = Range(adapter.models)

\* Two model ids, one answered and one timed out.
C9_Witness ==
    /\ adapter.op = "query_models_parallel"
    /\ Len(adapter.models) = 2
    /\ adapter.models[1] # adapter.models[2]
    /\ adapter.resps[1] = RespOk
    /\ adapter.resps[2] = RespSlow
    /\ DOMAIN adapter.many = {adapter.models[1], adapter.models[2]}
    /\ adapter.many[adapter.models[2]] = None

(* C10.  For both adapters, query_model turns every backend failure class  *)
(* into None without raising, and a timeout inside a batch raises nothing  *)
(* either.                                                                 *)
C10_FailuresBecomeNone ==
    /\ adapter.op = "query_model" =>
          /\ ~adapter.out.raised
          /\ BackendFailure(adapter.resps[1], adapter.timeout) =>
                adapter.out.value = None
    /\ adapter.op = "query_models_parallel" =>
          /\ ~adapter.out.raised
          /\ \A i \in 1..Len(adapter.models) :
                ( /\ BackendFailure(adapter.resps[i], DefaultTimeout)
                  /\ \A j \in (i + 1)..Len(adapter.models) :
                        adapter.models[j] # adapter.models[i] )
                => adapter.many[adapter.models[i]] = None

\* The Ollama adapter given a body without "choices".
C10_Witness ==
    /\ adapter.op = "query_model"
    /\ adapter.cls = "OllamaProvider"
    /\ adapter.resps[1] = RespNoChoices
    /\ adapter.out = Returned(None)

(* C11.  Every value an adapter's query_model returns is None or a result  *)
(* whose content is present text: no non-absent result has a missing or    *)
(* null content, whatever the body of the response.                        *)
C11_ContentIsText ==
    adapter.op = "query_model" =>
        /\ ~adapter.out.raised
        /\ ~adapter.out.value.isNone => adapter.out.value.content # PyNone

\* The message of the first choice of a 2xx JSON response.
RespMessage(resp) == resp.body.choices[1].message

(* C17.  A non-absent result of OllamaProvider has reasoning_details None  *)
(* even when the response message has the field; a non-absent result of   *)
(* OpenRouterProvider has the reasoning_details of the response message    *)
(* when the message has the field and None when it has not.                *)
C17_ReasoningDetailsPerAdapter ==
    (adapter.op = "query_model" /\ ~adapter.out.raised /\ ~adapter.out.value.isNone) =>
        /\ adapter.cls = "OllamaProvider" =>
              adapter.out.value.reasoning_details = PyNone
        /\ adapter.cls = "OpenRouterProvider" =>
              /\ RespMessage(adapter.resps[1]).has_rd =>
                    adapter.out.value.reasoning_details =
                        RespMessage(adapter.resps[1]).reasoning_details
              /\ ~RespMessage(adapter.resps[1]).has_rd =>
                    adapter.out.value.reasoning_details = PyNone

\* The Ollama adapter answered by a message that has reasoning_details.
C17_Witness ==
    /\ adapter.op = "query_model"
    /\ adapter.cls = "OllamaProvider"
    /\ adapter.resps[1] = RespOkRd
    /\ ~adapter.out.value.isNone
    /\ adapter.out.value.reasoning_details = PyNone

\* spec is a recognized tag, the separator and some rest.
Tagged(spec) == \E k \in Kinds : \E rest \in DOMAIN chars :
                    chars[spec] = chars[k] \o <<":">> \o chars[rest]

(* C12.  For a specifier that begins with "ollama:" or "openrouter:",      *)
(* parse_model_spec returns, in every mode, the kind the prefix names and  *)
(* the rest of the string as model id; for a bare specifier in openrouter  *)
(* or ollama mode it returns the mode's kind and the specifier unchanged.  *)
C12_ParseFollowsTag ==
    \A n \in 1..Len(parsing) :
        LET spec == parsing[n].spec
            out  == parsing[n].out
        IN  /\ \A k \in Kinds : \A rest \in DOMAIN chars :
                  chars[spec] = chars[k] \o <<":">> \o chars[rest] =>
                      (out.ok /\ out.provider = k /\ out.model = rest)
            /\ (~Tagged(spec) /\ LLM_PROVIDER # "mixed") =>
                  (out.ok /\ out.provider = LLM_PROVIDER /\ out.model = spec)

\* A tagged specifier parsed under a mode that implies the other kind, and
\* a bare one parsed under the same mode.
C12_Witness ==
    /\ Len(parsing) = 2
    /\ LLM_PROVIDER = "ollama"
    /\ parsing[1].spec = "openrouter:n"
    /\ parsing[1].out = [ok |-> TRUE, provider |-> "openrouter", model |-> "n"]
    /\ parsing[2].spec = "ollama"
    /\ parsing[2].out = [ok |-> TRUE, provider |-> "ollama", model |-> "ollama"]

\* The text of spec before its first separator is not a recognized tag.
UnknownTag(spec) ==
    \E k \in 1..Len(chars[spec]) :
        /\ chars[spec][k] = ":"
        /\ \A j \in 1..(k - 1) : chars[spec][j] # ":"
        /\ SubSeq(chars[spec], 1, k - 1) \notin {chars[x] : x \in Kinds}

(* C13.  A specifier whose text before the first separator is not a        *)
(* recognized tag is parsed as a bare specifier is: the mode's kind and    *)
(* the whole string in openrouter or ollama mode, ValueError in mixed      *)
(* mode; it is never rejected for its prefix.                              *)
C13_UnknownTagIsBare ==
    \A n \in 1..Len(parsing) :
        UnknownTag(parsing[n].spec) =>
            /\ LLM_PROVIDER # "mixed" =>
                  parsing[n].out = [ok |-> TRUE, provider |-> LLM_PROVIDER,
                                    model |-> parsing[n].spec]
            /\ LLM_PROVIDER = "mixed" =>
                  parsing[n].out = [ok |-> FALSE, exc |-> "ValueError"]
            /\ \A m \in 1..Len(parsing) :
                  (~Tagged(parsing[m].spec) /\ ~UnknownTag(parsing[m].spec)) =>
                      parsing[m].out.ok = parsing[n].out.ok

\* "foo:m" parsed beside a specifier with no separator at all.
C13_Witness ==
    /\ Len(parsing) = 2
    /\ parsing[1].spec = "foo:m"
    /\ parsing[1].out.ok
    /\ parsing[1].out.model = "foo:m"
    /\ parsing[2].spec = "m"
    /\ parsing[2].out.ok

\* How often s stands in the input of the current call.
Occurrences(s) == Cardinality({n \in 1..Len(model_specs) : model_specs[n] = s})
\* The queries of the current call launched for specifier s.
QueriesFor(s) == {ti \in UNION {{<<t, i>> : i \in Items(t)} : t \in Tasks} :
                     ItemSpec(ti[1], ti[2]) = s}
\* Every request posted so far on behalf of the current call.
AllRequests ==
    UNION {Range(provider_tasks[t].q[i].reqs) : <<t, i>> \in
              UNION {{<<t2, i2>> : i2 \in Items(t2)} : t2 \in Tasks}}
    \cup Range(qm.reqs)

(* C14.  The router never retries: in one query_models_parallel call each  *)
(* occurrence of a specifier gets one query when the specifier parses and  *)
(* its adapter is obtained and none otherwise, each query posts at most    *)
(* one request, and a query that ended, with None or not, has posted       *)
(* exactly one; the router's query_model posts at most one request too.    *)
C14_NoRetry ==
    /\ pc \in {"gather", "done"} =>
          /\ \A s \in Range(model_specs) :
                Cardinality(QueriesFor(s)) =
                    IF Parsed(s).ok /\ provider_instances[Parsed(s).provider] # NoInstance
                    THEN Occurrences(s) ELSE 0
          /\ \A t \in Tasks : \A i \in Items(t) :
                /\ Len(provider_tasks[t].q[i].reqs) <= 1
                /\ ItemDone(t, i) => Len(provider_tasks[t].q[i].reqs) = 1
    /\ Len(qm.reqs) <= 1
    /\ pc = "qm_done" => Len(qm.reqs) = IF qm.sent THEN 1 ELSE 0

\* A call with a repeated specifier and a query that returned None: the
\* call is over and every query posted one request.
C14_Witness ==
    /\ pc = "done"
    /\ \E s \in Range(model_specs) :
          /\ Occurrences(s) = 2
          /\ Cardinality(QueriesFor(s)) = 2
    /\ \E t \in Tasks : \E i \in Items(t) :
          /\ QueryFailed(t, i)
          /\ Len(provider_tasks[t].q[i].reqs) = 1

(* C16.  Every request posted by OpenRouterProvider carries the bearer     *)
(* credential in its Authorization header and no request posted by         *)
(* OllamaProvider carries it: the credential has gone to the OpenRouter    *)
(* endpoint only.                                                          *)
C16_CredentialOnlyToOpenRouter ==
    /\ \A t \in Tasks : \A i \in Items(t) :
          \A r \in Range(provider_tasks[t].q[i].reqs) :
              IF provider_tasks[t].prov.cls = "OpenRouterProvider"
              THEN r.to = OpenRouterUrl /\ r.authorization = Bearer(OPENROUTER_API_KEY)
              ELSE r.to = OllamaEndpoint /\ r.authorization = PyNone
    /\ \A r \in Range(qm.reqs) :
          IF qm.prov.cls = "OpenRouterProvider"
          THEN r.to = OpenRouterUrl /\ r.authorization = Bearer(OPENROUTER_API_KEY)
          ELSE r.to = OllamaEndpoint /\ r.authorization = PyNone
    /\ \A r \in AllRequests :
          r.authorization # PyNone =>
              (r.to = OpenRouterUrl /\ Truthy(OPENROUTER_API_KEY))

\* A mixed-mode call that posted to both backends.
C16_Witness ==
    /\ pc = "done"
    /\ \E r \in AllRequests : r.to = OpenRouterUrl /\ r.authorization # PyNone
    /\ \E r \in AllRequests : r.to = OllamaEndpoint /\ r.authorization = PyNone

(* C15.  query_models_parallel keeps no results between calls: when a      *)
(* call follows another that had the same specifier, the later call        *)
(* launches a query of its own for it and returns the outcome of that      *)
(* query, whatever the earlier call returned; between two calls only the   *)
(* registry holds anything.  (Stated for a specifier that is the only one  *)
(* of its call asking its backend for its model id.)                       *)
C15_NoResultsKeptBetweenCalls ==
    /\ (pc = "done" /\ previous.op = "dispatch") =>
          \A s \in Range(model_specs) \cap Range(previous.specs) :
              (Parsed(s).ok /\ provider_instances[Parsed(s).provider] # NoInstance) =>
                  /\ QueriesFor(s) # {}
                  /\ \A ti \in QueriesFor(s) :
                        /\ ItemDone(ti[1], ti[2])
                        /\ Len(provider_tasks[ti[1]].q[ti[2]].reqs) = 1
                        /\ SameModel(ti[1], ti[2]) = {ti[2]} =>
                              ret.value[s] = Out(ti[1], ti[2]).value
    /\ pc = "idle" =>
          /\ model_specs = << >>
          /\ all_results = << >>
          /\ provider_tasks = << >>
          /\ ret = NoRet

\* The earlier call returned None for the specifier, the later call a
\* result.
C15_Witness ==
    /\ pc = "done"
    /\ previous.op = "dispatch"
    /\ \E s \in Range(model_specs) \cap Range(previous.specs) :
          /\ previous.value[s] = None
          /\ ~ret.value[s].isNone
          /\ \E ti \in QueriesFor(s) : ret.value[s] = Out(ti[1], ti[2]).value

\* One step that is a direct call of get_provider.
C18_Step ==
    (pc = "idle" /\ pc' = "get_done") =>
        /\ last_get'.raised <=>
              \/ last_get'.name \notin Kinds
              \/ last_get'.name = "openrouter" /\ ~Truthy(OPENROUTER_API_KEY)
        /\ last_get'.raised =>
              /\ provider_instances' = provider_instances
              /\ constructed' = constructed
              /\ last_get'.name \in Kinds =>
                    provider_instances'[last_get'.name] = NoInstance
        /\ ( /\ previous.op = "get_provider"
             /\ previous.get.raised
             /\ previous.get.name = last_get'.name )
           => last_get'.raised

(* C18.  get_provider raises ValueError for "openrouter" when              *)
(* OPENROUTER_API_KEY is not set and for every name other than             *)
(* "openrouter" and "ollama"; a call that raised leaves the registry as it *)
(* was, with no entry for the failed kind, and a later call for the same   *)
(* name fails again.                                                       *)
C18_FailedGetLeavesRegistry == [][C18_Step]_vars

\* get_provider("openrouter") failed twice in a row for want of a key.
C18_Witness ==
    /\ pc = "get_done"
    /\ last_get.name = "openrouter"
    /\ last_get.raised
    /\ previous.op = "get_provider"
    /\ previous.get.name = "openrouter"
    /\ previous.get.raised
    /\ provider_instances["openrouter"] = NoInstance

(* C19.  query_models_parallel returns only after every batch it started,  *)
(* and every query of those batches, has ended: when the call is over no   *)
(* query is still in flight and the entry of every routed specifier is the *)
(* outcome of a query that ended.                                          *)
C19_ReturnsAfterAllQueries ==
    pc \in {"done", "raised"} =>
        /\ \A t \in Tasks :
              /\ provider_tasks[t].st # "running"
              /\ \A i \in Items(t) : ItemDone(t, i)
        /\ pc = "done" =>
              \A t \in Tasks : \A i \in Items(t) :
                  ret.value[ItemSpec(t, i)] \in
                      {Out(t, j).value : j \in {k \in SameModel(t, i) : ItemDone(t, k)}}

\* A call over two batches, one of them with two queries, has returned.
C19_Witness ==
    /\ pc = "done"
    /\ Len(provider_tasks) = 2
    /\ \E t \in Tasks : Len(provider_tasks[t].q) = 2
    /\ \A t \in Tasks : \A i \in Items(t) : ItemDone(t, i)

(* C20.  Under the event loop's scheduling, and every query ending, a      *)
(* query_models_parallel call that waits for its queries eventually        *)
(* returns, in whatever order the queries end.                             *)
C20_DispatchReturns == (pc = "gather") ~> (pc = "done")

\* A call has returned in which a query ran into its timeout beside one
\* that was answered, in another batch.
C20_Witness ==
    /\ pc = "done"
    /\ \E t \in Tasks : \E t2 \in Tasks : \E i \in Items(t) : \E i2 \in Items(t2) :
          /\ t # t2
          /\ provider_tasks[t].q[i].resp = RespSlow
          /\ provider_tasks[t2].q[i2].resp = RespOk
          /\ ret.value[ItemSpec(t, i)] = None

\* One step of a call that waits for its queries, seen from each query.
C21_Step ==
    pc = "gather" =>
        \A t \in Tasks : \A i \in Items(t) :
            LET qu == provider_tasks[t].q[i] IN
            /\ qu.st = "created" => ENABLED SendQuery(t, i)
            /\ qu.st = "sent" => \A resp \in DispatchResponses :
                                     ENABLED CompleteQuery(t, i, resp)
            /\ qu.st = "sent" => provider_tasks'[t].q[i].st \in {"sent", "done"}
            /\ qu.st = "done" => provider_tasks'[t].q[i] = qu
            /\ (\E t2 \in Tasks : \E i2 \in Items(t2) :
                    /\ <<t2, i2>> # <<t, i>>
                    /\ provider_tasks'[t2].q[i2] # provider_tasks[t2].q[i2])
               => provider_tasks'[t].q[i] = qu

(* C21.  The queries of one query_models_parallel call run concurrently    *)
(* and none cancels another: a query not yet started can start whatever    *)
(* state the other queries are in, a started query can always end, it ends *)
(* only by its own exchange ending, and the end of one query (failure and  *)
(* timeout included) changes no other query.                               *)
C21_NoCrossQueryCancellation == [][C21_Step]_vars

\* A query of a batch timed out while its sibling of the same batch and a
\* query of the other batch are still in flight.
C21_Witness ==
    /\ pc = "gather"
    /\ \E t \in Tasks : \E t2 \in Tasks : \E i \in Items(t) : \E j \in Items(t) :
          \E k \in Items(t2) :
              /\ t # t2
              /\ i # j
              /\ QueryFailed(t, i)
              /\ provider_tasks[t].q[i].resp = RespSlow
              /\ provider_tasks[t].q[j].st = "sent"
              /\ provider_tasks[t2].q[k].st = "sent"

\* The specifiers of the current call that resolve to kind k, in input
\* order, and the model ids parse_model_spec gives for them.
SpecsOf(k) == SelectSeq(model_specs, LAMBDA s : Destined(s, k))
ModelIdsOf(k) == [n \in 1..Len(SpecsOf(k)) |-> Parsed(SpecsOf(k)[n]).model]
\* The batches of the current call handed to the adapter of kind k.
BatchesOf(k) == {t \in Tasks : provider_tasks[t].prov = provider_instances[k]}

(* C22.  In one query_models_parallel call the adapter of each kind that   *)
(* some specifier resolved to, and that get_provider returned, gets one    *)
(* query_models_parallel call whose model id list is the model ids of the  *)
(* specifiers of that kind, one per occurrence; a kind without adapter or  *)
(* without specifier gets none, and no model id goes to the adapter of     *)
(* another kind than its specifier's.                                      *)
C22_OneBatchPerKind ==
    pc \in {"gather", "done"} =>
        /\ \A k \in Kinds :
              IF Len(SpecsOf(k)) > 0 /\ provider_instances[k] # NoInstance
              THEN /\ Cardinality(BatchesOf(k)) = 1
                   /\ \A t \in BatchesOf(k) :
                         /\ provider_tasks[t].model_ids_list = ModelIdsOf(k)
                         /\ Len(provider_tasks[t].q) = Len(SpecsOf(k))
                         /\ \A i \in Items(t) :
                               /\ ItemSpec(t, i) = SpecsOf(k)[i]
                               /\ ItemModel(t, i) = ModelIdsOf(k)[i]
                               /\ \A r \in Range(provider_tasks[t].q[i].reqs) :
                                     r.to = Request(provider_instances[k],
                                                    OPENROUTER_API_KEY).to
              ELSE \A t \in Tasks :
                       /\ provider_tasks[t].prov # provider_instances[k]
                       /\ provider_tasks[t].prov.cls # NewInstance(k, constructed).cls
        /\ \A t \in Tasks : \E k \in Kinds : t \in BatchesOf(k)

\* A mixed-mode call with two specifiers for one backend and one for the
\* other: two batches, of two model ids and of one.
C22_Witness ==
    /\ pc = "done"
    /\ Len(SpecsOf("ollama")) = 2
    /\ Len(SpecsOf("openrouter")) = 1
    /\ Cardinality(BatchesOf("ollama")) = 1
    /\ Cardinality(BatchesOf("openrouter")) = 1
    /\ \A t \in BatchesOf("ollama") : Len(provider_tasks[t].model_ids_list) = 2

\* The queries of the current call that went to the backend and model id
\* parse_model_spec gives for specifier s.
QueriesTo(s) ==
    {ti \in UNION {{<<t, i>> : i \in Items(t)} : t \in Tasks} :
        /\ provider_tasks[ti[1]].prov = provider_instances[Parsed(s).provider]
        /\ ItemModel(ti[1], ti[2]) = Parsed(s).model
        /\ \A r \in Range(provider_tasks[ti[1]].q[ti[2]].reqs) :
              r.to = Request(provider_instances[Parsed(s).provider],
                             OPENROUTER_API_KEY).to}

(* C23.  For every specifier that parses and whose adapter is obtained,    *)
(* the value in the output of query_models_parallel is the outcome of a    *)
(* query sent to the backend and model id parse_model_spec returns for     *)
(* it; "ollama:m" and "openrouter:m" in one call never get each other's    *)
(* outcome.                                                                *)
C23_ValueFromOwnBackend ==
    pc = "done" =>
        \A s \in Range(model_specs) :
            (Parsed(s).ok /\ provider_instances[Parsed(s).provider] # NoInstance) =>
                \E ti \in QueriesTo(s) :
                    /\ ItemDone(ti[1], ti[2])
                    /\ Len(provider_tasks[ti[1]].q[ti[2]].reqs) = 1
                    /\ ret.value[s] = Out(ti[1], ti[2]).value

\* One model id asked of both backends in one call: Ollama answered and
\* OpenRouter timed out, and each specifier has its backend's outcome.
C23_Witness ==
    /\ pc = "done"
    /\ {"ollama:m", "openrouter:m"} \subseteq Range(model_specs)
    /\ ~ret.value["ollama:m"].isNone
    /\ ret.value["openrouter:m"] = None
    /\ \E ti \in QueriesTo("openrouter:m") :
          provider_tasks[ti[1]].q[ti[2]].resp = RespSlow

\* The other adapter class.
OtherClass(cls) == IF cls = "OllamaProvider" THEN "OpenRouterProvider" ELSE "OllamaProvider"
\* What the other adapter class does with the models and exchanges of the
\* current direct call.
OtherOne == ProviderQueryModel(OtherClass(adapter.cls), adapter.resps[1], adapter.timeout)
OtherMany ==
    ProviderQueryModelsParallel(adapter.models,
        [i \in 1..Len(adapter.models) |->
            ProviderQueryModel(OtherClass(adapter.cls), adapter.resps[i],
                               AdapterDefaultTimeout(OtherClass(adapter.cls)))])

(* C24.  Given the same model ids and the same exchanges, OllamaProvider   *)
(* and OpenRouterProvider return mappings with the same keys, the same     *)
(* None or not per model id and the same content, from query_model and     *)
(* from query_models_parallel; both have the timeout default 120.          *)
C24_AdaptersAgree ==
    /\ OllamaDefaultTimeout = DefaultTimeout
    /\ OpenRouterDefaultTimeout = DefaultTimeout
    /\ adapter.op = "query_model" =>
          /\ OtherOne.raised = adapter.out.raised
          /\ OtherOne.value.isNone = adapter.out.value.isNone
          /\ OtherOne.value.content = adapter.out.value.content
    /\ adapter.op = "query_models_parallel" =>
          /\ OtherMany.raised = adapter.out.raised
          /\ DOMAIN OtherMany.value = DOMAIN adapter.many
          /\ \A m \in DOMAIN adapter.many :
                /\ OtherMany.value[m].isNone = adapter.many[m].isNone
                /\ OtherMany.value[m].content = adapter.many[m].content

\* The OpenRouter adapter asked for two models: one answered with
\* reasoning_details, the other with a choice that has no message.
C24_Witness ==
    /\ adapter.op = "query_models_parallel"
    /\ adapter.cls = "OpenRouterProvider"
    /\ Len(adapter.models) = 2
    /\ adapter.models[1] # adapter.models[2]
    /\ adapter.resps[1] = RespOkRd
    /\ adapter.resps[2] = RespNoMsg
    /\ adapter.many[adapter.models[1]].content = "yo"
    /\ adapter.many[adapter.models[2]] = None
    /\ OtherMany.value[adapter.models[1]].content = "yo"

\* Where a set of queries went, leaving out how the exchanges ended.
Targets(queries) == {[spec |-> x.spec, to |-> x.to, model |-> x.model] : x \in queries}
\* A query_model call and a query_models_parallel call for the one same
\* specifier have followed each other, in either order, and the later one
\* has ended.
SideBySide ==
    \/ /\ pc = "qm_done"
       /\ previous.op = "dispatch"
       /\ previous.specs = <<qm.spec>>
    \/ /\ pc = "done"
       /\ previous.op = "query_model"
       /\ previous.specs = model_specs
       /\ Len(model_specs) = 1
\* The value the later call gave for the specifier.
LaterValue == IF pc = "qm_done" THEN qm.value ELSE ret.value[model_specs[1]]

(* C25.  query_model(spec) and query_models_parallel([spec]) agree: they   *)
(* send their query to the same backend and model id, send none in the     *)
(* same cases, and, the exchange ending the same way, query_model returns  *)
(* the value query_models_parallel stores under the specifier.             *)
C25_SingleRouteAgrees ==
    /\ pc # "qm_raised"
    /\ SideBySide =>
          /\ Targets(QueriesMade) = Targets(previous.queries)
          /\ Cardinality(QueriesMade) <= 1
          /\ QueriesMade = previous.queries =>
                LaterValue = previous.value[previous.specs[1]]

\* query_model after query_models_parallel for a tagged specifier under a
\* mode that implies the other backend, both answered.
C25_Witness ==
    /\ pc = "qm_done"
    /\ previous.op = "dispatch"
    /\ previous.specs = <<qm.spec>>
    /\ qm.sent
    /\ QueriesMade = previous.queries
    /\ ~qm.value.isNone
    /\ qm.value = previous.value[qm.spec]
    /\ startswith(qm.spec, "ollama:")
    /\ LLM_PROVIDER # "ollama"

\* The kinds some specifier of the current call resolves to.
KindsAsked == {k \in Kinds : \E s \in Range(model_specs) : Destined(s, k)}

(* C26.  A query_models_parallel call asks get_provider only for the kinds *)
(* its specifiers resolve to, once each; a call with no specifier, or with *)
(* none that parses, returns the empty mapping, or None for every          *)
(* specifier, with no adapter constructed, no query sent and the registry  *)
(* as it was.                                                              *)
C26_AdaptersOnlyWhenNeeded ==
    pc \in {"gather", "done"} =>
        /\ Range(gets) = KindsAsked
        /\ Len(gets) = Cardinality(KindsAsked)
        /\ \A k \in Kinds \ KindsAsked :
              /\ provider_instances[k] = NoInstance
              /\ constructed[k] = 0
        /\ KindsAsked = {} =>
              /\ pc = "done"
              /\ provider_tasks = << >>
              /\ AllRequests = {}
              /\ DOMAIN ret.value = Range(model_specs)
              /\ \A s \in Range(model_specs) : ret.value[s] = None

\* A mixed-mode call of bare specifiers only has returned.
C26_Witness ==
    /\ pc = "done"
    /\ LLM_PROVIDER = "mixed"
    /\ Len(model_specs) = 2
    /\ KindsAsked = {}
    /\ gets = << >>
    /\ \A k \in Kinds : constructed[k] = 0
    /\ \A s \in Range(model_specs) : ret.value[s] = None

\* One step that is a direct call of parse_model_spec.
C27_Step ==
    parsing' # parsing =>
        /\ UNCHANGED <<configVars, registryVars, callVars, last_get, threads, adapter>>
        /\ SubSeq(parsing', 1, Len(parsing)) = parsing
        /\ \A n \in 1..Len(parsing') : \A m \in 1..Len(parsing') :
              parsing'[n].spec = parsing'[m].spec => parsing'[n].out = parsing'[m].out
        /\ \A n \in 1..Len(parsing') :
              LET spec == parsing'[n].spec
                  out  == parsing'[n].out
              IN  /\ Tagged(spec) =>
                        /\ out.ok
                        /\ chars[out.provider] \o <<":">> \o chars[out.model] = chars[spec]
                  /\ spec = "ollama:openrouter:m" =>
                        out = [ok |-> TRUE, provider |-> "ollama", model |-> "openrouter:m"]
                  /\ spec = "ollama:" =>
                        out = [ok |-> TRUE, provider |-> "ollama", model |-> ""]

(* C27.  parse_model_spec is pure and deterministic and strips exactly one *)
(* prefix: a call changes nothing but what it returns, equal specifiers    *)
(* under one mode give equal results, and for a tagged specifier the kind  *)
(* returned, the separator and the model id returned spell the specifier;  *)
(* "ollama:openrouter:m" gives ollama with "openrouter:m" and "ollama:"    *)
(* gives ollama with the empty model id.                                   *)
C27_ParseIsPure == [][C27_Step]_vars

\* The same doubly tagged specifier parsed twice with the same result.
C27_Witness ==
    /\ Len(parsing) = 2
    /\ parsing[1].spec = "ollama:openrouter:m"
    /\ parsing[2].spec = "ollama:openrouter:m"
    /\ parsing[1].out = parsing[2].out
    /\ parsing[2].out.provider = "ollama"
    /\ parsing[2].out.model = "openrouter:m"

====
